---- MODULE Spec2Model ----
(***************************************************************************)
(* Model of main.py: the Supervisor control loop (supervisor_loop), the    *)
(* two child processes it keeps alive, the heartbeat file, and the Worker  *)
(* script's connect loop (start_tiktok_client), its connected handler      *)
(* (on_connect) and its heartbeat task (heartbeat_loop).                   *)
(*                                                                         *)
(* Time is counted in seconds and advances in steps of Unit, the smallest  *)
(* sleep of the program; every other sleep is a multiple of it.  The       *)
(* system clock is taken to be non-decreasing.  Ages saturate at AgeCap,   *)
(* the first value above HEARTBEAT_TIMEOUT.                                *)
(***************************************************************************)
EXTENDS Integers, FiniteSets, TLC

\* ---------------------------------------------------------------- constants
HEARTBEAT_INTERVAL == 20
HEARTBEAT_TIMEOUT == 90
WORKER_RESTART_BACKOFF == 5
UVICORN_RESTART_BACKOFF == 5
CHECK_INTERVAL == 10

\* The fault threshold of the self-heal policy (spec, P5); main.py has none.
SelfHealThreshold == 5

\* The ceiling on the time since the client was built (spec, transition
\* table: a configured value); main.py has none.  One minute here.
RebuildCeiling == 60

\* ------------------------------------------------------------------- bounds
\* Worker processes that survived a failed kill() and are no longer referenced.
MaxOrphans == 1
\* Notification sends in flight at once.
MaxInflight == 2
\* Connected signals counted per session.
MaxSignals == 3
\* Consecutive UserOfflineError outcomes counted.
MaxOfflineRun == 2

Unit == WORKER_RESTART_BACKOFF
AgeCap == HEARTBEAT_TIMEOUT + Unit
Absent == 0 - 1
Unset == 0 - 2

Min(a, b) == IF a < b THEN a ELSE b

VARIABLES
  pc,           \* where supervisor_loop stands
  sTimer,       \* seconds left of the Supervisor's current asyncio.sleep
  web_proc,     \* "None" or "Proc": the handle of the uvicorn child
  webAlive,     \* whether the uvicorn process runs
  worker_proc,  \* "None" or "Proc": the handle of the worker child
  wState,       \* the process worker_proc refers to (or last referred to)
  hbTimer,      \* seconds left of heartbeat_loop's sleep
  orphans,      \* worker processes alive with no handle left
  orphanBeats,  \* whether such a process still runs its heartbeat task
  hbAge,        \* age of the heartbeat file's mtime, Absent when no file
  termSent,     \* children that were sent terminate() by the finally block
  respawnDue,   \* a stale poll cleared the handle and no worker was spawned since
  killResult,   \* outcome of the kill() of the last stale poll
  readOrder,    \* "none", or how the last read compares with the read before it
  readLast,     \* age (now) of the mtime the last poll read from this worker's file
  spawnHb,      \* the heartbeat file at the last worker Popen: "absent" or "present"
  workerStarts, \* worker Popen calls that succeeded: 0, 1, or 2 for two and more
  lastPoll,     \* outcome of the heartbeat poll just made, "none" otherwise
  waitedBackoff, \* the Supervisor slept WORKER_RESTART_BACKOFF since the last spawn
  hbWrite,      \* the current worker's last write_text: "ok", "failed", "recovered"
  hbOwn,        \* the heartbeat file was written by the current worker process
  staleKill,    \* what the last stale poll killed: "healthy", "own", "foreign"
  is_live,      \* the Worker script's global flag
  cState,       \* connect loop: "connecting" (inside client.start) or "backoff"
  cTimer,       \* seconds left of the connect loop's sleep
  lastFault,    \* the class whose backoff the connect loop is in
  elapsed,      \* seconds spent in the current backoff
  waited,       \* per class, the length of the last completed backoff
  inflight,     \* send_line_message calls awaiting the transport
  sessionNotifs,  \* notifications sent since the last Offline/GenericFault
  sessionSignals, \* connected signals since the last Offline/GenericFault
  genericRun,   \* consecutive GenericFault classifications
  clientBuilds, \* TikTokLiveClient instances constructed
  offlineRun,   \* consecutive UserOfflineError outcomes, up to MaxOfflineRun
  signalsSinceFault, \* connected signals since client.start() last raised
  sendState,    \* this session's notification: "inflight", "ok", "failed",
                \* "failed_quiet" once a later signal was suppressed
  clientAge     \* seconds since the TikTokLiveClient was constructed

supVars == <<pc, sTimer, web_proc, webAlive, worker_proc, wState, hbTimer,
             orphans, orphanBeats, hbAge, termSent, respawnDue, killResult,
             readOrder, readLast, spawnHb, workerStarts,
             lastPoll, waitedBackoff, hbWrite, hbOwn, staleKill>>
conVars == <<is_live, cState, cTimer, lastFault, elapsed, waited, inflight,
             sessionNotifs, sessionSignals, genericRun, clientBuilds,
             offlineRun, signalsSinceFault, sendState, clientAge>>
vars == <<pc, sTimer, web_proc, webAlive, worker_proc, wState, hbTimer,
          orphans, orphanBeats, hbAge, termSent, respawnDue, killResult,
          readOrder, readLast, spawnHb, workerStarts,
          lastPoll, waitedBackoff, hbWrite, hbOwn, staleKill,
          is_live, cState, cTimer, lastFault, elapsed, waited, inflight,
          sessionNotifs, sessionSignals, genericRun, clientBuilds,
          offlineRun, signalsSinceFault, sendState, clientAge>>

Alive == {"starting", "running", "hung"}
Sleeping == {"web_backoff", "worker_backoff", "check_sleep"}
Faults == {"Offline", "NotFound", "Generic"}

\* ------------------------------------------------------------ pure helpers
\* One Unit later: a file's age grows, an absent file stays absent.
Age(a) == IF a < 0 THEN a ELSE Min(a + Unit, AgeCap)

\* `proc is None or proc.poll() is not None`
NeedsStart(proc, alive) == proc = "None" \/ ~alive

\* Two consecutive reads of the mtime, as ages at the time of the second read:
\* the later read is "ordered" when its timestamp is not before the earlier one.
ReadOrder(earlier, later) ==
  IF earlier = Unset THEN "first"
  ELSE IF later <= earlier THEN "ordered" ELSE "backwards"

\* `age > HEARTBEAT_TIMEOUT`
StaleAtTimeout(age) == age >= HEARTBEAT_TIMEOUT
StaleAfterCheck(age) == age > CHECK_INTERVAL
Stale(age) == age > HEARTBEAT_TIMEOUT

\* What a stale poll kills: a worker that runs and whose last write succeeded
\* ("healthy"), or else one judged by a record it did not write ("foreign")
\* or by its own record ("own").
KillKind(state, wrote, own) ==
  IF state = "running" /\ wrote \in {"ok", "recovered"} THEN "healthy"
  ELSE IF ~own THEN "foreign"
  ELSE "own"

\* `worker_proc = None` after the kill of a stale worker
HandleKept == worker_proc
HandleAfterStale == "None"

\* The age of the mtime a successful write_text leaves, given the age of the
\* file it replaces: the write stamps the file with now, i.e. age 0.
StampBackdated(prev) == IF prev < 0 THEN 0 ELSE AgeCap
HbStamp(prev) == 0

\* asyncio.gather(start_tiktok_client(), heartbeat_loop()): the heartbeat task
\* is scheduled whatever await the connect loop is suspended in.
StarvedWhileConnecting(c) == c # "connecting"
HbRunnable(c) == TRUE

\* ------------------------------------------------------------------- Init
Init ==
  /\ pc = "ensure_web"
  /\ sTimer = 0
  /\ web_proc = "None"
  /\ webAlive = FALSE
  /\ worker_proc = "None"
  /\ wState = "none"
  /\ hbTimer = 0
  /\ orphans = 0
  /\ orphanBeats = FALSE
  /\ hbAge \in {Absent, AgeCap}   \* /tmp may hold the file of an earlier run
  /\ termSent = {}
  /\ respawnDue = FALSE
  /\ killResult = "none"
  /\ readOrder = "none"
  /\ readLast = Unset
  /\ spawnHb = "unset"
  /\ workerStarts = 0
  /\ lastPoll = "none"
  /\ waitedBackoff = FALSE
  /\ hbWrite = "none"
  /\ hbOwn = FALSE
  /\ staleKill = "none"
  /\ is_live = FALSE
  /\ cState = "connecting"
  /\ cTimer = 0
  /\ lastFault = "none"
  /\ elapsed = 0
  /\ waited = [f \in Faults |-> 0]
  /\ inflight = 0
  /\ sessionNotifs = 0
  /\ sessionSignals = 0
  /\ genericRun = 0
  /\ clientBuilds = 1
  /\ offlineRun = 0
  /\ signalsSinceFault = 0
  /\ sendState = "none"
  /\ clientAge = 0

\* ------------------------------------------------------------- Supervisor
\* The finally block: terminate() every child whose handle is set and running.
Finally(next) ==
  /\ pc' = next
  /\ sTimer' = 0
  /\ termSent' = termSent
        \cup (IF worker_proc = "Proc" /\ wState \in Alive THEN {"worker"} ELSE {})
        \cup (IF web_proc = "Proc" /\ webAlive THEN {"web"} ELSE {})
  /\ wState' = IF worker_proc = "Proc" /\ wState \in Alive THEN "exited" ELSE wState
  /\ webAlive' = IF web_proc = "Proc" THEN FALSE ELSE webAlive
  /\ hbTimer' = 0
  /\ UNCHANGED <<web_proc, worker_proc, orphans, orphanBeats, hbAge,
                 respawnDue, killResult,
                 readOrder, readLast, spawnHb, workerStarts,
                 lastPoll, waitedBackoff, hbWrite, hbOwn, staleKill>>

EnsureWeb ==
  /\ pc = "ensure_web"
  /\ IF NeedsStart(web_proc, webAlive)
       THEN IF web_proc # "None"
              THEN pc' = "web_backoff" /\ sTimer' = UVICORN_RESTART_BACKOFF
              ELSE pc' = "start_web" /\ sTimer' = 0
       ELSE pc' = "ensure_worker" /\ sTimer' = 0
  /\ lastPoll' = "none"
  /\ UNCHANGED <<web_proc, webAlive, worker_proc, wState, hbTimer, orphans,
                 orphanBeats,
                 hbAge, termSent, respawnDue, killResult, readOrder,
                 readLast, spawnHb, workerStarts,
                 waitedBackoff, hbWrite, hbOwn, staleKill>>
  /\ UNCHANGED conVars

WebBackoffDone ==
  /\ pc = "web_backoff"
  /\ sTimer = 0
  /\ pc' = "start_web"
  /\ UNCHANGED <<sTimer, web_proc, webAlive, worker_proc, wState, hbTimer,
                 orphans, orphanBeats, hbAge, termSent, respawnDue, killResult,
                 readOrder, readLast, spawnHb, workerStarts,
                 lastPoll, waitedBackoff, hbWrite, hbOwn, staleKill>>
  /\ UNCHANGED conVars

\* subprocess.Popen(uvicorn_cmd): an OSError leaves the loop through finally.
StartWeb ==
  /\ pc = "start_web"
  /\ \E ok \in BOOLEAN :
       IF ok
         THEN /\ web_proc' = "Proc"
              /\ webAlive' = TRUE
              /\ pc' = "ensure_worker"
              /\ UNCHANGED <<sTimer, worker_proc, wState, hbTimer, orphans,
                             orphanBeats,
                             hbAge, termSent, respawnDue, killResult,
                             readOrder, readLast, spawnHb, workerStarts,
                             lastPoll, waitedBackoff, hbWrite, hbOwn, staleKill>>
         ELSE Finally("crashed")
  /\ UNCHANGED conVars

EnsureWorker ==
  /\ pc = "ensure_worker"
  /\ IF NeedsStart(worker_proc, wState \in Alive)
       THEN IF worker_proc # "None"
              THEN pc' = "worker_backoff" /\ sTimer' = WORKER_RESTART_BACKOFF
              ELSE pc' = "start_worker" /\ sTimer' = 0
       ELSE pc' = "check_sleep" /\ sTimer' = CHECK_INTERVAL
  /\ UNCHANGED <<web_proc, webAlive, worker_proc, wState, hbTimer, orphans,
                 orphanBeats,
                 hbAge, termSent, respawnDue, killResult, readOrder,
                 readLast, spawnHb, workerStarts,
                 lastPoll, waitedBackoff, hbWrite, hbOwn, staleKill>>
  /\ UNCHANGED conVars

WorkerBackoffDone ==
  /\ pc = "worker_backoff"
  /\ sTimer = 0
  /\ pc' = "start_worker"
  /\ waitedBackoff' = TRUE
  /\ UNCHANGED <<sTimer, web_proc, webAlive, worker_proc, wState, hbTimer,
                 orphans, orphanBeats, hbAge, termSent, respawnDue, killResult,
                 readOrder, readLast, spawnHb, workerStarts,
                 lastPoll, hbWrite, hbOwn, staleKill>>
  /\ UNCHANGED conVars

\* unlink(missing_ok=True) with its failure swallowed, then Popen(worker_cmd).
StartWorker ==
  /\ pc = "start_worker"
  /\ \E unlinked \in BOOLEAN, ok \in BOOLEAN :
       LET hb == IF unlinked THEN Absent ELSE hbAge IN
       IF ok
         THEN /\ hbAge' = hb
              /\ spawnHb' = IF hb = Absent THEN "absent" ELSE "present"
              /\ workerStarts' = Min(workerStarts + 1, 2)
              /\ waitedBackoff' = FALSE
              /\ hbWrite' = "none"
              /\ hbOwn' = FALSE
              /\ staleKill' = "none"
              /\ UNCHANGED lastPoll
              /\ worker_proc' = "Proc"
              /\ wState' = "starting"
              /\ hbTimer' = 0
              /\ respawnDue' = FALSE
              /\ killResult' = "none"
              /\ readOrder' = "none"
              /\ readLast' = Unset
              /\ pc' = "check_sleep"
              /\ sTimer' = CHECK_INTERVAL
              /\ UNCHANGED <<web_proc, webAlive, orphans, orphanBeats,
                             termSent>>
         ELSE /\ pc' = "crashed"
              /\ sTimer' = 0
              /\ hbAge' = hb
              /\ termSent' = termSent
                    \cup (IF worker_proc = "Proc" /\ wState \in Alive
                            THEN {"worker"} ELSE {})
                    \cup (IF web_proc = "Proc" /\ webAlive THEN {"web"} ELSE {})
              /\ wState' = IF worker_proc = "Proc" /\ wState \in Alive
                             THEN "exited" ELSE wState
              /\ webAlive' = IF web_proc = "Proc" THEN FALSE ELSE webAlive
              /\ hbTimer' = 0
              /\ UNCHANGED <<web_proc, worker_proc, orphans, orphanBeats,
                             respawnDue,
                             killResult, readOrder, readLast, spawnHb,
                             workerStarts,
                 lastPoll, waitedBackoff, hbWrite, hbOwn, staleKill>>
  /\ UNCHANGED conVars

SleepDone ==
  /\ pc = "check_sleep"
  /\ sTimer = 0
  /\ pc' = "poll"
  /\ UNCHANGED <<sTimer, web_proc, webAlive, worker_proc, wState, hbTimer,
                 orphans, orphanBeats, hbAge, termSent, respawnDue, killResult,
                 readOrder, readLast, spawnHb, workerStarts,
                 lastPoll, waitedBackoff, hbWrite, hbOwn, staleKill>>
  /\ UNCHANGED conVars

\* `if not hb_path.exists(): continue`
PollAbsent ==
  /\ pc = "poll"
  /\ hbAge = Absent
  /\ pc' = "ensure_web"
  /\ lastPoll' = "absent"
  /\ UNCHANGED <<sTimer, web_proc, webAlive, worker_proc, wState, hbTimer,
                 orphans, orphanBeats, hbAge, termSent, respawnDue, killResult,
                 readOrder, readLast, spawnHb, workerStarts,
                 waitedBackoff, hbWrite, hbOwn, staleKill>>
  /\ UNCHANGED conVars

\* hb_path.stat() raises: logged, `continue`
PollStatFail ==
  /\ pc = "poll"
  /\ hbAge # Absent
  /\ pc' = "ensure_web"
  /\ lastPoll' = "unreadable"
  /\ UNCHANGED <<sTimer, web_proc, webAlive, worker_proc, wState, hbTimer,
                 orphans, orphanBeats, hbAge, termSent, respawnDue, killResult,
                 readOrder, readLast, spawnHb, workerStarts,
                 waitedBackoff, hbWrite, hbOwn, staleKill>>
  /\ UNCHANGED conVars

\* the mtime is read and its age is within the timeout
PollFresh ==
  /\ pc = "poll"
  /\ hbAge # Absent
  /\ ~Stale(hbAge)
  /\ readOrder' = ReadOrder(readLast, hbAge)
  /\ readLast' = hbAge
  /\ pc' = "ensure_web"
  /\ lastPoll' = "fresh"
  /\ UNCHANGED <<sTimer, web_proc, webAlive, worker_proc, wState, hbTimer,
                 orphans, orphanBeats, hbAge, termSent, respawnDue, killResult,
                 spawnHb, workerStarts,
                 waitedBackoff, hbWrite, hbOwn, staleKill>>
  /\ UNCHANGED conVars

\* the mtime is read and is stale: kill(), failure logged, handle cleared
PollStale ==
  /\ pc = "poll"
  /\ hbAge # Absent
  /\ Stale(hbAge)
  /\ readOrder' = ReadOrder(readLast, hbAge)
  /\ readLast' = hbAge
  /\ \/ /\ wState \in Alive            \* kill() succeeds
        /\ wState' = "exited"
        /\ killResult' = "killed"
        /\ UNCHANGED <<orphans, orphanBeats>>
     \/ /\ wState \in Alive            \* kill() raises: the process lives on
        /\ orphans < MaxOrphans
        /\ wState' = "none"
        /\ orphans' = orphans + 1
        /\ orphanBeats' = (orphanBeats \/ wState = "running")
        /\ killResult' = "failed"
     \/ /\ wState \notin Alive         \* already exited: kill() does nothing
        /\ killResult' = "noop"
        /\ UNCHANGED <<wState, orphans, orphanBeats>>
  /\ worker_proc' = HandleAfterStale
  /\ respawnDue' = TRUE
  /\ hbTimer' = 0
  /\ pc' = "ensure_web"
  /\ lastPoll' = "stale"
  /\ staleKill' = KillKind(wState, hbWrite, hbOwn)
  /\ UNCHANGED <<sTimer, web_proc, webAlive, hbAge, termSent, spawnHb,
                 workerStarts,
                 waitedBackoff, hbWrite, hbOwn>>
  /\ UNCHANGED conVars

\* asyncio cancellation, delivered at an await: except CancelledError, finally.
Cancel ==
  /\ pc \in Sleeping
  /\ Finally("done")
  /\ UNCHANGED conVars

\* ------------------------------------------------ child processes, as seen
\* by the Supervisor: the worker script's start, heartbeat task, crash, hang
WorkerBoot ==
  /\ wState = "starting"
  /\ wState' = "running"
  /\ hbTimer' = HEARTBEAT_INTERVAL
  /\ \E written \in BOOLEAN :
       IF written
         THEN /\ hbAge' = HbStamp(hbAge)
              /\ hbOwn' = TRUE
              /\ hbWrite' = IF hbWrite \in {"failed", "recovered"}
                               THEN "recovered" ELSE "ok"
         ELSE /\ hbWrite' = "failed"
              /\ UNCHANGED <<hbAge, hbOwn>>
  /\ UNCHANGED <<pc, sTimer, web_proc, webAlive, worker_proc, orphans,
                 orphanBeats, termSent,
                 respawnDue, killResult, readOrder, readLast, spawnHb,
                 workerStarts,
                 lastPoll, waitedBackoff, staleKill>>
  /\ UNCHANGED conVars

HeartbeatWrite ==
  /\ wState = "running"
  /\ HbRunnable(cState)
  /\ hbTimer = 0
  /\ hbTimer' = HEARTBEAT_INTERVAL
  /\ \E written \in BOOLEAN :
       IF written
         THEN /\ hbAge' = HbStamp(hbAge)
              /\ hbOwn' = TRUE
              /\ hbWrite' = IF hbWrite \in {"failed", "recovered"}
                               THEN "recovered" ELSE "ok"
         ELSE /\ hbWrite' = "failed"
              /\ UNCHANGED <<hbAge, hbOwn>>
  /\ UNCHANGED <<pc, sTimer, web_proc, webAlive, worker_proc, wState, orphans,
                 orphanBeats,
                 termSent, respawnDue, killResult, readOrder, readLast,
                 spawnHb, workerStarts,
                 lastPoll, waitedBackoff, staleKill>>
  /\ UNCHANGED conVars

WorkerHang ==
  /\ wState \in {"starting", "running"}
  /\ wState' = "hung"
  /\ hbTimer' = 0
  /\ UNCHANGED <<pc, sTimer, web_proc, webAlive, worker_proc, orphans,
                 orphanBeats, hbAge,
                 termSent, respawnDue, killResult, readOrder, readLast,
                 spawnHb, workerStarts,
                 lastPoll, waitedBackoff, hbWrite, hbOwn, staleKill>>
  /\ UNCHANGED conVars

WorkerExit ==
  /\ wState \in Alive
  /\ wState' = "exited"
  /\ hbTimer' = 0
  /\ readLast' = Unset
  /\ readOrder' = "none"
  /\ UNCHANGED <<pc, sTimer, web_proc, webAlive, worker_proc, orphans,
                 orphanBeats,
                 hbAge, termSent, respawnDue, killResult, spawnHb,
                 workerStarts,
                 lastPoll, waitedBackoff, hbWrite, hbOwn, staleKill>>
  /\ UNCHANGED conVars

WebExit ==
  /\ webAlive
  /\ webAlive' = FALSE
  /\ UNCHANGED <<pc, sTimer, web_proc, worker_proc, wState, hbTimer, orphans,
                 orphanBeats,
                 hbAge, termSent, respawnDue, killResult, readOrder,
                 readLast, spawnHb, workerStarts,
                 lastPoll, waitedBackoff, hbWrite, hbOwn, staleKill>>
  /\ UNCHANGED conVars

OrphanHeartbeat ==
  /\ orphans > 0
  /\ orphanBeats
  /\ hbAge # HbStamp(hbAge)
  /\ hbAge' = HbStamp(hbAge)
  /\ hbOwn' = FALSE
  /\ UNCHANGED <<pc, sTimer, web_proc, webAlive, worker_proc, wState, hbTimer,
                 orphans, orphanBeats, termSent, respawnDue, killResult,
                 readOrder,
                 readLast, spawnHb, workerStarts,
                 lastPoll, waitedBackoff, hbWrite, staleKill>>
  /\ UNCHANGED conVars

OrphanExit ==
  /\ orphans > 0
  /\ orphans' = orphans - 1
  /\ orphanBeats' = (orphanBeats /\ orphans > 1)
  /\ UNCHANGED <<pc, sTimer, web_proc, webAlive, worker_proc, wState, hbTimer,
                 hbAge, termSent, respawnDue, killResult, readOrder,
                 readLast, spawnHb, workerStarts,
                 lastPoll, waitedBackoff, hbWrite, hbOwn, staleKill>>
  /\ UNCHANGED conVars

\* Unit seconds pass: the Supervisor sleeps, no sleep of a running task is over.
Tick ==
  /\ pc \in Sleeping
  /\ sTimer > 0
  /\ wState = "running" => hbTimer > 0
  /\ sTimer' = sTimer - Unit
  /\ hbTimer' = IF wState = "running" THEN hbTimer - Unit ELSE hbTimer
  /\ hbAge' = Age(hbAge)
  /\ readLast' = Age(readLast)
  /\ UNCHANGED <<pc, web_proc, webAlive, worker_proc, wState, orphans,
                 orphanBeats, termSent,
                 respawnDue, killResult, readOrder, spawnHb, workerStarts,
                 lastPoll, waitedBackoff, hbWrite, hbOwn, staleKill>>
  /\ UNCHANGED conVars

\* ------------------------------------------ Worker script: connect loop
\* on_connect: `if is_live: return`
NeverSuppressed(live) == FALSE
Suppressed(live) == live

\* is_live after the except clause of a fault class
IsLiveKept(ev, live) == live
IsLiveCleared(ev, live) == FALSE
IsLiveAfter(ev, live) ==
  CASE ev = "Offline" -> FALSE
    [] ev = "NotFound" -> live
    [] ev = "Generic" -> FALSE

\* the asyncio.sleep of the except clause of a fault class
BackoffUniform(ev) == 10
Backoff(ev) ==
  CASE ev = "Offline" -> 5
    [] ev = "NotFound" -> 30
    [] ev = "Generic" -> 10

\* `except UserOfflineError`, `except UserNotFoundError`, `except Exception`:
\* every fault class has a clause, the last one catches whatever is left.
CaughtNamedOnly(ev) == ev # "Generic"
Caught(ev) == TRUE

\* is_live after send_line_message returned: the function neither touches the
\* flag nor raises, whatever the transport did.
RetryAfterSendError(outcome, live) == IF outcome = "ok" THEN live ELSE FALSE
IsLiveAfterSend(outcome, live) == live

\* ConnectEvent delivered to on_connect while client.start() runs.  The flag
\* is set before the await of send_line_message.
ConnectedSignal ==
  /\ cState = "connecting"
  /\ sessionSignals < MaxSignals
  /\ sessionSignals' = sessionSignals + 1
  /\ signalsSinceFault' = signalsSinceFault + 1
  /\ IF Suppressed(is_live)
       THEN /\ sendState' = IF sendState = "failed"
                               THEN "failed_quiet" ELSE sendState
            /\ UNCHANGED <<is_live, inflight, sessionNotifs>>
       ELSE /\ inflight < MaxInflight
            /\ is_live' = TRUE
            /\ inflight' = inflight + 1
            /\ sessionNotifs' = sessionNotifs + 1
            /\ sendState' = "inflight"
  /\ UNCHANGED <<cState, cTimer, lastFault, elapsed, waited, genericRun,
                 clientBuilds, offlineRun, clientAge>>
  /\ UNCHANGED supVars

\* send_line_message returns: a 200, another status or an exception, the last
\* two printed and swallowed.  The send that returns is this session's or one
\* started before the last Offline/GenericFault.
SendDone ==
  /\ inflight > 0
  /\ \E outcome \in {"ok", "status", "exception"} :
       /\ inflight' = inflight - 1
       /\ is_live' = IsLiveAfterSend(outcome, is_live)
       /\ \/ /\ sendState = "inflight"
             /\ sendState' = IF outcome = "ok" THEN "ok" ELSE "failed"
          \/ /\ inflight > (IF sendState = "inflight" THEN 1 ELSE 0)
             /\ UNCHANGED sendState
  /\ UNCHANGED <<cState, cTimer, lastFault, elapsed, waited,
                 sessionNotifs, sessionSignals, genericRun, clientBuilds,
                 offlineRun, signalsSinceFault, clientAge>>
  /\ UNCHANGED supVars

\* client.start() raises; the except clause of its class runs up to its sleep.
\* An exception no clause caught would leave `while True` and end the script.
RaiseFault ==
  /\ cState = "connecting"
  /\ \E ev \in Faults :
       IF Caught(ev)
         THEN /\ is_live' = IsLiveAfter(ev, is_live)
              /\ cTimer' = Backoff(ev)
              /\ lastFault' = ev
              /\ genericRun' = IF ev = "Generic"
                                 THEN Min(genericRun + 1, SelfHealThreshold)
                                 ELSE 0
              /\ offlineRun' = IF ev = "Offline"
                                 THEN Min(offlineRun + 1, MaxOfflineRun)
                                 ELSE 0
              /\ IF ev = "NotFound"
                   THEN UNCHANGED <<sessionNotifs, sessionSignals, sendState>>
                   ELSE /\ sessionNotifs' = 0
                        /\ sessionSignals' = 0
                        /\ sendState' = "none"
              /\ signalsSinceFault' = 0
              /\ cState' = "backoff"
              /\ elapsed' = 0
         ELSE /\ cState' = "ended"
              /\ lastFault' = ev
              /\ UNCHANGED <<is_live, cTimer, genericRun, offlineRun,
                             sessionNotifs, sessionSignals, sendState,
                             signalsSinceFault, elapsed>>
  /\ UNCHANGED <<waited, inflight, clientBuilds, clientAge>>
  /\ UNCHANGED supVars

\* the sleep of the except clause is over: `while True` calls client.start()
BackoffDone ==
  /\ cState = "backoff"
  /\ cTimer = 0
  /\ cState' = "connecting"
  /\ waited' = [waited EXCEPT ![lastFault] = elapsed]
  /\ UNCHANGED <<is_live, cTimer, lastFault, elapsed, inflight, sessionNotifs,
                 sessionSignals, genericRun, clientBuilds, offlineRun,
                 signalsSinceFault, sendState, clientAge>>
  /\ UNCHANGED supVars

\* Unit seconds pass in the Worker process: the heartbeat timer runs down and
\* the file and the client grow older.  A heartbeat write that is due and can
\* run comes first.
WorkerClock ==
  /\ wState = "running"
  /\ HbRunnable(cState) => hbTimer > 0
  /\ hbTimer' = IF hbTimer > 0 THEN hbTimer - Unit ELSE 0
  /\ hbAge' = Age(hbAge)
  /\ clientAge' = Min(clientAge + Unit, RebuildCeiling + Unit)
  /\ UNCHANGED <<pc, sTimer, web_proc, webAlive, worker_proc, wState,
                 orphans, orphanBeats, termSent, respawnDue, killResult,
                 readOrder, readLast, spawnHb, workerStarts, lastPoll,
                 waitedBackoff, hbWrite, hbOwn, staleKill>>

\* Unit seconds of a backoff pass
BackoffTick ==
  /\ cState = "backoff"
  /\ cTimer > 0
  /\ cTimer' = cTimer - Unit
  /\ elapsed' = elapsed + Unit
  /\ WorkerClock
  /\ UNCHANGED <<is_live, cState, lastFault, waited, inflight, sessionNotifs,
                 sessionSignals, genericRun, clientBuilds, offlineRun,
                 signalsSinceFault, sendState>>

\* Unit seconds pass while client.start() is awaited
ConnectTick ==
  /\ cState = "connecting"
  /\ WorkerClock
  /\ UNCHANGED <<is_live, cState, cTimer, lastFault, elapsed, waited, inflight,
                 sessionNotifs, sessionSignals, genericRun, clientBuilds,
                 offlineRun, signalsSinceFault, sendState>>

Next ==
  \/ EnsureWeb
  \/ WebBackoffDone
  \/ StartWeb
  \/ EnsureWorker
  \/ WorkerBackoffDone
  \/ StartWorker
  \/ SleepDone
  \/ PollAbsent
  \/ PollStatFail
  \/ PollFresh
  \/ PollStale
  \/ Cancel
  \/ WorkerBoot
  \/ HeartbeatWrite
  \/ WorkerHang
  \/ WorkerExit
  \/ WebExit
  \/ OrphanHeartbeat
  \/ OrphanExit
  \/ Tick

Spec == Init /\ [][Next]_vars

\* The Supervisor takes its next step, time passes, a running worker runs.
SupervisorStep ==
  \/ EnsureWeb
  \/ WebBackoffDone
  \/ StartWeb
  \/ EnsureWorker
  \/ WorkerBackoffDone
  \/ StartWorker
  \/ SleepDone
  \/ PollAbsent
  \/ PollStatFail
  \/ PollFresh
  \/ PollStale

FairSpec ==
  /\ Init
  /\ [][Next]_vars
  /\ WF_vars(SupervisorStep)
  /\ WF_vars(Tick)
  /\ WF_vars(WorkerBoot)
  /\ WF_vars(HeartbeatWrite)
  /\ SF_vars(PollFresh)
  /\ SF_vars(PollStale)

\* One Worker process from the start of its script.
WorkerNext ==
  \/ ConnectedSignal
  \/ SendDone
  \/ RaiseFault
  \/ BackoffDone
  \/ BackoffTick
  \/ ConnectTick
  \/ HeartbeatWrite

\* The state right after the first worker wrote its first heartbeat.
WorkerInit ==
  /\ pc = "check_sleep"
  /\ sTimer = CHECK_INTERVAL
  /\ web_proc = "Proc"
  /\ webAlive = TRUE
  /\ worker_proc = "Proc"
  /\ wState = "running"
  /\ hbTimer = HEARTBEAT_INTERVAL
  /\ orphans = 0
  /\ orphanBeats = FALSE
  /\ hbAge = 0
  /\ termSent = {}
  /\ respawnDue = FALSE
  /\ killResult = "none"
  /\ readOrder = "none"
  /\ readLast = Unset
  /\ spawnHb = "absent"
  /\ workerStarts = 1
  /\ lastPoll = "none"
  /\ waitedBackoff = FALSE
  /\ hbWrite = "ok"
  /\ hbOwn = TRUE
  /\ staleKill = "none"
  /\ is_live = FALSE
  /\ cState = "connecting"
  /\ cTimer = 0
  /\ lastFault = "none"
  /\ elapsed = 0
  /\ waited = [f \in Faults |-> 0]
  /\ inflight = 0
  /\ sessionNotifs = 0
  /\ sessionSignals = 0
  /\ genericRun = 0
  /\ clientBuilds = 1
  /\ offlineRun = 0
  /\ signalsSinceFault = 0
  /\ sendState = "none"
  /\ clientAge = 0

WorkerSpec == WorkerInit /\ [][WorkerNext]_vars

\* ------------------------------------------------------------- properties
AliveWorkers == (IF wState \in Alive THEN 1 ELSE 0) + orphans
AliveWebs == IF webAlive THEN 1 ELSE 0
Stopped == pc \in {"done", "crashed"}

\* C1: within one session (the connected signals between two Offline or
\* GenericFault outcomes) the first connected signal sends one notification
\* and every later one sends nothing, also while the first send is in flight.
IdempotentNotification ==
  /\ sessionSignals = 0 => sessionNotifs = 0
  /\ sessionSignals >= 1 => sessionNotifs = 1
  /\ sessionNotifs = 1 => is_live

\* a second connected signal arrived while the first send was still in flight
DuplicateSignalDuringSend ==
  /\ sessionSignals >= 2
  /\ sessionNotifs = 1
  /\ inflight >= 1

HungWorkerEventuallyKilled ==
  (worker_proc = "Proc" /\ wState = "hung") ~> (wState # "hung" \/ Stopped)

\* C4: every replacement worker is spawned with the heartbeat file absent.
ReplacementStartsWithAbsentHeartbeat ==
  workerStarts >= 2 => spawnHb = "absent"

\* C5: at most one worker process and at most one web process is alive.
AtMostOneChildPerKind ==
  /\ AliveWorkers <= 1
  /\ AliveWebs <= 1

\* C6: of two consecutive reads of the heartbeat mtime made while the same
\* worker is alive, the later never observes an earlier timestamp.
HeartbeatReadsMonotone == readOrder # "backwards"

\* two reads of a running worker's heartbeat, with a write in between
TwoReadsOfRunningWorker ==
  /\ readOrder = "ordered"
  /\ wState = "running"
  /\ hbAge < readLast

\* C7: after a cancellation no child process is left running without having
\* been sent terminate().
ShutdownTerminatesEveryChild ==
  pc = "done" => (AliveWorkers = 0 /\ AliveWebs = 0)

\* C8: the control loop ends only by the cancellation, never by a failure.
LoopEndsOnlyOnShutdown == pc # "crashed"

\* C9: the client never goes through SelfHealThreshold consecutive
\* GenericFaults without being rebuilt (genericRun counts them since the
\* client instance was built).
ClientRebuiltAtThreshold ==
  genericRun >= SelfHealThreshold => clientBuilds > 1

\* C10: the completed waits are ordered NotFound > Generic > Offline.
BackoffDifferentiation ==
  /\ (waited["NotFound"] > 0 /\ waited["Generic"] > 0)
        => waited["NotFound"] > waited["Generic"]
  /\ (waited["Generic"] > 0 /\ waited["Offline"] > 0)
        => waited["Generic"] > waited["Offline"]
  /\ (waited["NotFound"] > 0 /\ waited["Offline"] > 0)
        => waited["NotFound"] > waited["Offline"]

\* a backoff of each of the three classes has been waited out
AllThreeBackoffsWaited == \A f \in Faults : waited[f] > 0

\* ------------------------------------------------------------------- C11
\* C11: whatever sequence of Offline, NotFound and Generic outcomes
\* client.start() produces, the connect loop is never left and the process
\* keeps running: each outcome is followed by the backoff of its class, and
\* the end of the backoff by the next call of client.start().
ConnectLoopNeverEnds ==
  /\ [](/\ cState \in {"connecting", "backoff"}
        /\ wState = "running"
        /\ cState = "backoff" =>
             (lastFault \in Faults /\ cTimer + elapsed = Backoff(lastFault)))
  /\ [][(cState = "backoff" /\ cState' # "backoff")
          => (cState' = "connecting" /\ elapsed = Backoff(lastFault))]_vars

\* client.start() is called again after the backoffs of all three classes,
\* each as long as its class says, the last one a GenericFault.
ReconnectAfterEveryFaultClass ==
  /\ cState = "connecting"
  /\ lastFault = "Generic"
  /\ \A f \in Faults : waited[f] = Backoff(f)

\* ------------------------------------------------------------------- C12
\* C12: while the Worker runs, the heartbeat file is never older than one
\* heartbeat period after a write that succeeded, whether the connect loop is
\* connected, in a backoff or inside client.start(); a failed write is
\* followed by the next attempt one period later.
HeartbeatIndependentOfConnect ==
  /\ wState = "running"
  /\ hbTimer <= HEARTBEAT_INTERVAL
  /\ hbWrite \in {"ok", "recovered"} =>
       (hbAge <= HEARTBEAT_INTERVAL /\ hbAge + hbTimer = HEARTBEAT_INTERVAL)

\* A write succeeded after a failed one while the connect loop was in the
\* backoff it is still in.
HeartbeatRecoversDuringBackoff ==
  /\ cState = "backoff"
  /\ hbWrite = "recovered"
  /\ hbAge < elapsed

\* ------------------------------------------------------------------- C13
\* An Offline or Generic outcome of client.start()
ClearingFaultStep ==
  /\ cState = "connecting"
  /\ cState' = "backoff"
  /\ lastFault' \in {"Offline", "Generic"}

\* C13: an Offline or Generic outcome leaves is_live False and sends nothing,
\* from Live as from Idle; a run of Offline outcomes sends nothing; the first
\* connected signal after such an outcome sends exactly one notification.
FaultClearsLiveAndStaysSilent ==
  /\ []((cState = "backoff" /\ lastFault \in {"Offline", "Generic"})
          => (~is_live /\ sessionNotifs = 0))
  /\ []((lastFault \in {"Offline", "Generic"} /\ signalsSinceFault >= 1)
          => (is_live /\ sessionNotifs = 1))
  /\ [][ClearingFaultStep => inflight' = inflight]_vars

\* After a live session and MaxOfflineRun Offline outcomes in a row, the first
\* connected signal has sent the one notification of the new session.
NotifiedOnceAfterOfflineRun ==
  /\ offlineRun = MaxOfflineRun
  /\ signalsSinceFault >= 1
  /\ sessionNotifs = 1
  /\ inflight >= 2

\* ------------------------------------------------------------------- C14
\* A NotFound outcome of client.start()
NotFoundStep ==
  /\ cState = "connecting"
  /\ cState' = "backoff"
  /\ lastFault' = "NotFound"

\* C14: a NotFound outcome leaves is_live as it was and sends nothing; the
\* connected signal that follows it sends nothing when the flag was True and
\* one notification when it was False.
NotFoundKeepsConnectionState ==
  [][/\ NotFoundStep => (is_live' = is_live /\ inflight' = inflight
                          /\ sessionNotifs' = sessionNotifs)
     /\ (lastFault = "NotFound" /\ signalsSinceFault = 0
           /\ signalsSinceFault' = 1)
          => (is_live' /\ inflight' = inflight + (IF is_live THEN 0 ELSE 1))
    ]_vars

\* A connected signal arrived after a NotFound outcome in a live session and
\* sent nothing: the session still has its single notification.
SignalAfterNotFoundSuppressed ==
  /\ lastFault = "NotFound"
  /\ signalsSinceFault >= 1
  /\ sessionSignals >= 2
  /\ sessionNotifs = 1
  /\ inflight = 0

\* ------------------------------------------------------------------- C15
\* The transport failed this session's notification.
SendFailed == sendState \in {"failed", "failed_quiet"}

\* C15: when the transport fails the session's notification, the flag stays
\* True, the connect loop goes on and the session sends nothing more.
SendErrorSwallowedNoRetry ==
  /\ [](SendFailed => (is_live /\ sessionNotifs = 1 /\ cState # "ended"))
  /\ [][(SendFailed /\ SendFailed') => inflight' <= inflight]_vars

\* The session's notification failed and later connected signals were
\* suppressed.
SignalsAfterFailedSend ==
  /\ sendState = "failed_quiet"
  /\ is_live
  /\ inflight = 0
  /\ sessionNotifs = 1

\* ------------------------------------------------------------------- C18
\* C18: the client never gets older than RebuildCeiling: at the ceiling it is
\* rebuilt.
ClientRebuiltAtCeiling == clientAge <= RebuildCeiling

\* ------------------------------------------------------------------- C16
\* A step of the heartbeat poll: the Supervisor leaves line 108.
PollStep == pc = "poll" /\ pc' # "poll"

\* C16: a poll that finds the heartbeat file absent or unreadable, or finds
\* its age at most HEARTBEAT_TIMEOUT, changes nothing: no process is killed
\* and both child handles stay as they were.
QuietPollChangesNothing ==
  [][(PollStep /\ (hbAge = Absent \/ hbAge <= HEARTBEAT_TIMEOUT
                    \/ lastPoll' = "unreadable"))
       => /\ lastPoll' \in {"absent", "unreadable", "fresh"}
          /\ worker_proc' = worker_proc
          /\ web_proc' = web_proc
          /\ wState' = wState
          /\ webAlive' = webAlive
          /\ orphans' = orphans
          /\ killResult' = killResult]_vars

\* A hung worker's file is read at exactly HEARTBEAT_TIMEOUT seconds of age
\* and the worker is still there with its handle.
PollAtTimeoutSparesWorker ==
  /\ lastPoll = "fresh"
  /\ readLast = HEARTBEAT_TIMEOUT
  /\ hbAge = HEARTBEAT_TIMEOUT
  /\ worker_proc = "Proc"
  /\ wState = "hung"

\* ------------------------------------------------------------------- C17
\* C17: every spawn of the worker after the first one is preceded by a sleep
\* of WORKER_RESTART_BACKOFF, the respawn after a stale-heartbeat kill
\* included.
BackoffBeforeEveryRespawn ==
  (pc = "start_worker" /\ workerStarts >= 1) => waitedBackoff

\* ------------------------------------------------------------------- C19
\* C19: under the default settings a worker that runs and whose heartbeat
\* writes succeed is never killed by a stale poll, whatever the offset
\* between its writes and the Supervisor's polls.
NoFalsePositiveHangKill ==
  /\ staleKill # "healthy"
  /\ (pc = "poll" /\ wState = "running" /\ hbWrite \in {"ok", "recovered"})
       => hbAge <= HEARTBEAT_INTERVAL

\* A poll has just read a healthy worker's file at its greatest age, one
\* full heartbeat period, and left the worker alone.
HealthyWorkerPolledAtFullPeriod ==
  /\ lastPoll = "fresh"
  /\ readLast = HEARTBEAT_INTERVAL
  /\ hbAge = HEARTBEAT_INTERVAL
  /\ hbOwn
  /\ wState = "running"
  /\ hbWrite = "ok"
  /\ worker_proc = "Proc"
  /\ workerStarts >= 2

\* ------------------------------------------------------------------- C20
\* C20: a stale poll only kills a worker for a record that this very worker
\* wrote, never for a record an earlier instance left behind.
StaleKillJudgesOwnRecord == staleKill # "foreign"

===========================================================================
